---- MODULE Spec2Model ----
(***************************************************************************)
(* Model of src/app.js: the POST /correct handler, the LanguageTool client *)
(* correctWithLanguageTool (splice loop and error classification) and the  *)
(* local corrector enhancedFallbackCorrections.                            *)
(*                                                                         *)
(* A JavaScript string is a sequence of one-character strings.             *)
(***************************************************************************)
EXTENDS Integers, Sequences, FiniteSets, TLC

VARIABLES pc, originalText, transport, thrown, rendered,
          remoteAttempts, fallbackCalls, renders,
          text, matches, correctedText,
          fbText, fbOut, fbAgain

vars == <<pc, originalText, transport, thrown, rendered,
          remoteAttempts, fallbackCalls, renders,
          text, matches, correctedText,
          fbText, fbOut, fbAgain>>

orchVars == <<pc, originalText, transport, thrown, rendered,
              remoteAttempts, fallbackCalls, renders>>

spliceVars == <<text, matches, correctedText>>

fbVars == <<fbText, fbOut, fbAgain>>

\* JavaScript null, and undefined: a value that is no string (its element is
\* not a character), so that it can stand where a string can.
Null == <<"null">>

Undefined == <<"undefined">>

\* an output the program has not produced yet
Pending == <<"pending">>

(***************************************************************************)
(* Characters and character classes of the regular expressions             *)
(***************************************************************************)
LowerLetters ==
  <<"a","b","c","d","e","f","g","h","i","j","k","l","m",
    "n","o","p","q","r","s","t","u","v","w","x","y","z">>

UpperLetters ==
  <<"A","B","C","D","E","F","G","H","I","J","K","L","M",
    "N","O","P","Q","R","S","T","U","V","W","X","Y","Z">>

LowerSet == {LowerLetters[i] : i \in 1..26}

UpperSet == {UpperLetters[i] : i \in 1..26}

Digits == {"0","1","2","3","4","5","6","7","8","9"}

\* \w
WordChars == LowerSet \cup UpperSet \cup Digits \cup {"_"}

\* \s (the members the model's inputs use)
Whitespace == {" ", "\t", "\n"}

\* [.,!?]
PunctuationMarks == {".", ",", "!", "?"}

\* [.!?]
SentenceEnd == {".", "!", "?"}

toUpperCaseChar(c) ==
  IF c \in LowerSet
    THEN UpperLetters[CHOOSE i \in 1..26 : LowerLetters[i] = c]
    ELSE c

toLowerCaseChar(c) ==
  IF c \in UpperSet
    THEN LowerLetters[CHOOSE i \in 1..26 : UpperLetters[i] = c]
    ELSE c

toUpperCase(s) == [i \in 1..Len(s) |-> toUpperCaseChar(s[i])]

toLowerCase(s) == [i \in 1..Len(s) |-> toLowerCaseChar(s[i])]

\* String.prototype.slice(a, b) for non-negative a, b (clamped to the length)
Slice(s, a, b) ==
  LET hi == IF b > Len(s) THEN Len(s) ELSE b
  IN  IF a >= hi THEN <<>> ELSE SubSeq(s, a + 1, hi)

\* String.prototype.trim()
trim(s) ==
  LET n == Len(s)
      solid == {i \in 1..n : s[i] \notin Whitespace}
  IN  IF solid = {} THEN <<>>
      ELSE LET first == CHOOSE i \in 1..n :
                          /\ s[i] \notin Whitespace
                          /\ \A k \in 1..(i-1) : s[k] \in Whitespace
               last  == CHOOSE i \in 1..n :
                          /\ s[i] \notin Whitespace
                          /\ \A k \in (i+1)..n : s[k] \in Whitespace
           IN  SubSeq(s, first, last)

\* number of consecutive whitespace characters of s starting at index j
RECURSIVE WhitespaceRun(_, _)
WhitespaceRun(s, j) ==
  IF j <= Len(s) /\ s[j] \in Whitespace THEN 1 + WhitespaceRun(s, j + 1) ELSE 0

IsWordAt(s, k) == k >= 1 /\ k <= Len(s) /\ s[k] \in WordChars

\* \b between s[k-1] and s[k]
WordBoundary(s, k) == IsWordAt(s, k - 1) # IsWordAt(s, k)

(***************************************************************************)
(* Rule table of enhancedFallbackCorrections, in Object.entries order.     *)
(* Every key is compiled with flags 'gi'.  alts lists the alternatives of  *)
(* the pattern in the order the alternation tries them, in lower case;     *)
(* "(could|would|should) of" is written out as its three alternatives, and *)
(* suffix is the length of the part matched after group 1.                  *)
(***************************************************************************)
corrections ==
  <<
    [kind |-> "literal", alts |-> <<<<"i">>>>,
     out |-> <<"I">>, suffix |-> 0],
    [kind |-> "literal", alts |-> <<<<"m","e"," ","a","n","d">>>>,
     out |-> <<"a","n","d"," ","I">>, suffix |-> 0],
    [kind |-> "literal", alts |-> <<<<"a","l","o","t">>>>,
     out |-> <<"a"," ","l","o","t">>, suffix |-> 0],
    [kind |-> "group", alts |-> <<<<"c","o","u","l","d"," ","o","f">>, <<"w","o","u","l","d"," ","o","f">>, <<"s","h","o","u","l","d"," ","o","f">>>>,
     out |-> <<" ","h","a","v","e">>, suffix |-> 3],
    [kind |-> "function", alts |-> <<<<"t","h","e","i","r">>, <<"t","h","e","r","e">>, <<"t","h","e","y","'","r","e">>>>,
     out |-> <<>>, suffix |-> 0],
    [kind |-> "literal", alts |-> <<<<"g","o","e","s">>, <<"g","o","e","d">>>>,
     out |-> <<"g","o","e","s">>, suffix |-> 0],
    [kind |-> "literal", alts |-> <<<<"b","u","y","e","d">>>>,
     out |-> <<"b","o","u","g","h","t">>, suffix |-> 0],
    [kind |-> "literal", alts |-> <<<<"r","u","n","n","e","d">>>>,
     out |-> <<"r","a","n">>, suffix |-> 0],
    [kind |-> "literal", alts |-> <<<<"r","e","c","i","e","v","e">>>>,
     out |-> <<"r","e","c","e","i","v","e">>, suffix |-> 0],
    [kind |-> "literal", alts |-> <<<<"s","e","p","e","r","a","t","e">>>>,
     out |-> <<"s","e","p","a","r","a","t","e">>, suffix |-> 0],
    [kind |-> "literal", alts |-> <<<<"d","e","f","i","n","a","t","e","l","y">>>>,
     out |-> <<"d","e","f","i","n","i","t","e","l","y">>, suffix |-> 0],
    [kind |-> "literal", alts |-> <<<<"o","c","c","u","r","e","d">>>>,
     out |-> <<"o","c","c","u","r","r","e","d">>, suffix |-> 0]
  >>

\* The replacement function of the their/there/they're rule.
TheirThereReplacement(match) ==
  IF toLowerCase(match) = <<"t","h","e","i","r">> THEN <<"t","h","e","i","r">>
  ELSE IF toLowerCase(match) = <<"t","h","e","r","e">> THEN <<"t","h","e","r","e">>
  ELSE IF toLowerCase(match) = <<"t","h","e","y","'","r","e">>
    THEN <<"t","h","e","y","'","r","e">>
  ELSE match

(***************************************************************************)
(* The four regular expressions of the punctuation and capitalisation      *)
(* passes.                                                                 *)
(***************************************************************************)
\* /\s+([.,!?])/g  ->  '$1'
SpaceBeforePunctuation == [kind |-> "spaceBeforePunctuation"]

\* /([.!?])\s*(\w)/g  ->  '$1 $2'
SpaceAfterSentence == [kind |-> "spaceAfterSentence"]

\* /\s+/g  ->  ' '
CollapseWhitespace == [kind |-> "collapseWhitespace"]

\* /(^\s*|[.!?]\s+)([a-z])/g  ->  p1 + p2.toUpperCase()
CapitalizeSentences == [kind |-> "capitalizeSentences"]

IsRule(p) == p.kind \in {"literal", "group", "function"}

\* does alternative a of a \b...\b rule match s at index j (flag i)
AltMatchesAt(a, s, j) ==
  /\ j + Len(a) - 1 <= Len(s)
  /\ toLowerCaseChar(s[j]) = a[1]
  /\ toLowerCase(SubSeq(s, j, j + Len(a) - 1)) = a
  /\ WordBoundary(s, j)
  /\ WordBoundary(s, j + Len(a))

(***************************************************************************)
(* Length of the match of pattern p that starts at index j of s, 0 when p  *)
(* does not match there (no pattern of the program matches the empty       *)
(* string before a character it then consumes).  The quantifiers \s+ and   *)
(* \s* are greedy; giving characters back never helps because the next     *)
(* item of each pattern excludes whitespace.                               *)
(***************************************************************************)
MatchLen(p, s, j) ==
  IF IsRule(p) THEN
    LET hits == {k \in 1..Len(p.alts) : AltMatchesAt(p.alts[k], s, j)}
    IN  IF hits = {} THEN 0
        ELSE Len(p.alts[CHOOSE k \in hits : \A m \in hits : k <= m])
  ELSE IF p.kind = "spaceBeforePunctuation" THEN
    IF s[j] \notin Whitespace THEN 0
    ELSE LET w == WhitespaceRun(s, j)
         IN  IF j + w <= Len(s) /\ s[j + w] \in PunctuationMarks
               THEN w + 1 ELSE 0
  ELSE IF p.kind = "spaceAfterSentence" THEN
    IF s[j] \notin SentenceEnd THEN 0
    ELSE LET w == WhitespaceRun(s, j + 1)
         IN  IF j + 1 + w <= Len(s) /\ s[j + 1 + w] \in WordChars
               THEN w + 2 ELSE 0
  ELSE IF p.kind = "collapseWhitespace" THEN
    WhitespaceRun(s, j)
  ELSE \* capitalizeSentences: first alternative ^\s*, then [.!?]\s+
    LET w0 == WhitespaceRun(s, j)
        w1 == WhitespaceRun(s, j + 1)
    IN  IF j = 1 /\ j + w0 <= Len(s) /\ s[j + w0] \in LowerSet
          THEN w0 + 1
        ELSE IF /\ s[j] \in SentenceEnd
                /\ w1 >= 1
                /\ j + 1 + w1 <= Len(s)
                /\ s[j + 1 + w1] \in LowerSet
          THEN w1 + 2
        ELSE 0

\* what the matched substring m is replaced by
Replacement(p, m) ==
  IF p.kind = "literal" THEN p.out
  ELSE IF p.kind = "group" THEN Slice(m, 0, Len(m) - p.suffix) \o p.out
  ELSE IF p.kind = "function" THEN TheirThereReplacement(m)
  ELSE IF p.kind = "spaceBeforePunctuation" THEN <<m[Len(m)]>>
  ELSE IF p.kind = "spaceAfterSentence" THEN <<m[1], " ", m[Len(m)]>>
  ELSE IF p.kind = "collapseWhitespace" THEN <<" ">>
  ELSE Slice(m, 0, Len(m) - 1) \o <<toUpperCaseChar(m[Len(m)])>>

\* least index >= i at which p matches s, 0 when there is none: where the
\* next search of the global regular expression succeeds
FirstMatch(p, s, i) ==
  IF \E j \in i..Len(s) : MatchLen(p, s, j) > 0
    THEN CHOOSE j \in i..Len(s) :
           /\ MatchLen(p, s, j) > 0
           /\ \A y \in i..(j-1) : MatchLen(p, s, y) = 0
    ELSE 0

\* String.prototype.replace with a global regular expression: the matches
\* are found left to right, each search resuming after the previous match.
\* (j ranges over a one-element set so that the index of the match is
\* computed once.)
RECURSIVE ReplaceFrom(_, _, _)
ReplaceFrom(p, s, i) ==
  CHOOSE r \in
    { IF j = 0 THEN Slice(s, i - 1, Len(s))
      ELSE Slice(s, i - 1, j - 1)
             \o Replacement(p, SubSeq(s, j, j + MatchLen(p, s, j) - 1))
             \o ReplaceFrom(p, s, j + MatchLen(p, s, j))
      : j \in {FirstMatch(p, s, i)} } : TRUE

\* s.replace(p, ...), s being evaluated once
replace(s, p) == CHOOSE r \in {ReplaceFrom(p, v, 1) : v \in {s}} : TRUE

\* the loop over Object.entries(corrections), from rule k on
RECURSIVE ApplyReplacements(_, _)
ApplyReplacements(s, k) ==
  IF k > Len(corrections) THEN s
  ELSE ApplyReplacements(replace(s, corrections[k]), k + 1)

\* the punctuation fixes without the statement that collapses whitespace
PunctuationFixes_NoCollapse(s) ==
  replace(replace(s, SpaceBeforePunctuation), SpaceAfterSentence)

\* the three "Punctuation fixes" statements
PunctuationFixes(s) ==
  replace(replace(replace(s, SpaceBeforePunctuation), SpaceAfterSentence),
          CollapseWhitespace)

\* the capitalisation pass run before the punctuation fixes
enhancedFallbackCorrections_CapitalizeFirst(s) ==
  IF s = Undefined \/ s = Null \/ s = <<>> THEN <<>>
  ELSE trim(PunctuationFixes(replace(ApplyReplacements(s, 1),
                                     CapitalizeSentences)))

enhancedFallbackCorrections(s) ==
  IF s = Undefined \/ s = Null \/ s = <<>> THEN <<>>   \* if (!text) return ''
  ELSE trim(replace(PunctuationFixes(ApplyReplacements(s, 1)),
                    CapitalizeSentences))

(***************************************************************************)
(* Inputs of the corrector: every concatenation of at most MaxTokens       *)
(* tokens.  The tokens are words the rules look for (in several casings),  *)
(* ordinary word characters, whitespace (a run of two spaces among it) and *)
(* punctuation marks.                                                      *)
(***************************************************************************)
MaxTokens == 3

Tokens ==
  { <<"i">>, <<"m","e">>, <<"a","n","d">>, <<"a","l","o","t">>,
    <<"T","H","E","R","E">>, <<"x">>, <<"B">>, <<"1">>,
    <<" ">>, <<"\t">>, <<" ", " ">>, <<".">>, <<",">>, <<"?">> }

RECURSIVE Concat(_)
Concat(ts) == IF ts = <<>> THEN <<>> ELSE Head(ts) \o Concat(Tail(ts))

FallbackInputs ==
  {Concat(ts) : ts \in UNION {[1..k -> Tokens] : k \in 0..MaxTokens}}

OrchIdle ==
  /\ pc = "idle"
  /\ originalText = Undefined
  /\ transport = [kind |-> "none"]
  /\ thrown = Null
  /\ rendered = Null
  /\ remoteAttempts = 0
  /\ fallbackCalls = 0
  /\ renders = 0

SpliceIdle ==
  /\ text = <<>>
  /\ matches = <<>>
  /\ correctedText = Pending

FbIdle ==
  /\ fbText = <<>>
  /\ fbOut = Pending
  /\ fbAgain = Pending

(***************************************************************************)
(* The corrector on its own: one call, then a call on its own output.      *)
(***************************************************************************)
FbInit ==
  /\ fbText \in FallbackInputs
  /\ fbOut = Pending
  /\ fbAgain = Pending
  /\ OrchIdle
  /\ SpliceIdle

FbCorrect ==
  /\ fbOut = Pending
  /\ fbOut' = enhancedFallbackCorrections(fbText)
  /\ UNCHANGED <<fbText, fbAgain, orchVars, spliceVars>>

FbCorrectAgain ==
  /\ fbOut # Pending
  /\ fbAgain = Pending
  /\ fbAgain' = enhancedFallbackCorrections(fbOut)
  /\ UNCHANGED <<fbText, fbOut, orchVars, spliceVars>>

FbNext == FbCorrect \/ FbCorrectAgain

FallbackSpec == FbInit /\ [][FbNext]_vars

Letters == LowerSet \cup UpperSet

\* C7: the corrector is idempotent: correcting its own output changes nothing.
C7_Idempotent == fbAgain # Pending => fbAgain = fbOut

\* s[i] ends a sentence and s[j] is the first character after the whitespace
\* that follows it
AfterSentenceBoundary(s, i, j) ==
  /\ s[i] \in SentenceEnd
  /\ j > i + 1
  /\ \A k \in (i+1)..(j-1) : s[k] \in Whitespace

\* C8: in the corrector's output the first character, when a letter, is
\* upper case, and so is every letter that follows a sentence-ending mark
\* plus whitespace, also where the input had no whitespace at that boundary.
C8_SentencesCapitalized ==
  fbOut # Pending =>
    /\ (Len(fbOut) > 0 /\ fbOut[1] \in Letters) => fbOut[1] \in UpperSet
    /\ \A i \in 1..Len(fbOut) : \A j \in 1..Len(fbOut) :
         (AfterSentenceBoundary(fbOut, i, j) /\ fbOut[j] \in Letters)
           => fbOut[j] \in UpperSet

\* the input has a lower-case letter right after a sentence-ending mark, and
\* the output has that letter capitalised after mark and space
C8_Witness ==
  /\ fbOut # Pending
  /\ fbText = <<"x", ".", "x">>
  /\ fbOut = <<"X", ".", " ", "X">>

\* C9: the corrector's output has no leading or trailing whitespace, no two
\* adjacent whitespace characters, no whitespace right before . , ! ? and
\* exactly one space between a sentence-ending mark and a word character
\* that follows it.
C9_NormalizedSpacing ==
  fbOut # Pending =>
    /\ Len(fbOut) > 0 =>
         fbOut[1] \notin Whitespace /\ fbOut[Len(fbOut)] \notin Whitespace
    /\ \A i \in 1..(Len(fbOut) - 1) :
         /\ ~(fbOut[i] \in Whitespace /\ fbOut[i+1] \in Whitespace)
         /\ ~(fbOut[i] \in Whitespace /\ fbOut[i+1] \in PunctuationMarks)
         /\ ~(fbOut[i] \in SentenceEnd /\ fbOut[i+1] \in WordChars)
    /\ \A i \in 1..Len(fbOut) : \A j \in 1..Len(fbOut) :
         (AfterSentenceBoundary(fbOut, i, j) /\ fbOut[j] \in WordChars)
           => (j = i + 2 /\ fbOut[i+1] = " ")

\* an input with a run of whitespace before a mark, and the mark followed
\* directly by a word character, has been corrected
C9_Witness ==
  /\ fbOut # Pending
  /\ fbText = <<" ", " ", ".", "x">>
  /\ fbOut = <<".", " ", "X">>

TheirThereRule == corrections[5]

\* C10: the their/there/they're rule is a pass-through: its replacement
\* function returns the matched substring, in whatever casing, so applying
\* the rule leaves the text unchanged.
C10_TheirTherePassThrough ==
  fbOut # Pending =>
    /\ \A j \in 1..Len(fbText) :
         LET n == MatchLen(TheirThereRule, fbText, j)
         IN  n > 0 => TheirThereReplacement(SubSeq(fbText, j, j + n - 1))
                        = SubSeq(fbText, j, j + n - 1)
    /\ replace(fbText, TheirThereRule) = fbText

(***************************************************************************)
(* correctWithLanguageTool                                                 *)
(*                                                                         *)
(* A match is [offset, length, replacements], replacements a sequence of   *)
(* [value |-> string].  A message is kept whole, as a one-element sequence.*)
(***************************************************************************)
TimeoutMessage ==
  <<"LanguageTool service is taking too long to respond. Please try again.">>

UnavailableMessage ==
  <<"LanguageTool service is currently unavailable. Please try again later.">>

UnreachableMessage ==
  <<"Unable to connect to grammar service. Using basic corrections instead.">>

(***************************************************************************)
(* What the transport does with the one request (an outcome), and what     *)
(* axios.post makes of it: a response for a 2xx status, otherwise an       *)
(* AxiosError that carries a code and, when one was received, the response.*)
(***************************************************************************)
AxiosPost(outcome) ==
  IF outcome.kind = "ok"
    THEN [resolved |-> TRUE, data |-> outcome.data]
  ELSE IF outcome.kind = "timeout"
    THEN [resolved |-> FALSE,
          error |-> [name |-> "AxiosError", code |-> "ECONNABORTED",
                     response |-> FALSE]]
  ELSE IF outcome.kind = "badStatus"
    THEN [resolved |-> FALSE,
          error |-> [name |-> "AxiosError", code |-> "ERR_BAD_RESPONSE",
                     response |-> TRUE]]
  ELSE [resolved |-> FALSE,
        error |-> [name |-> "AxiosError", code |-> "ENOTFOUND",
                   response |-> FALSE]]

\* reading response.data.matches.length when data has no matches
TypeError == [name |-> "TypeError", code |-> "undefined", response |-> FALSE]

\* matches.sort((a, b) => b.offset - a.offset): a stable sort, here by
\* insertion; m goes behind every element whose offset is not smaller
RECURSIVE InsertByOffset(_, _)
InsertByOffset(m, sorted) ==
  IF sorted = <<>> THEN <<m>>
  ELSE IF Head(sorted).offset >= m.offset
    THEN <<Head(sorted)>> \o InsertByOffset(m, Tail(sorted))
  ELSE <<m>> \o sorted

RECURSIVE SortFrom(_, _, _)
SortFrom(ms, k, sorted) ==
  IF k > Len(ms) THEN sorted
  ELSE SortFrom(ms, k + 1, InsertByOffset(ms[k], sorted))

\* the comparator reversed: ascending offsets
RECURSIVE InsertAscending(_, _)
InsertAscending(m, sorted) ==
  IF sorted = <<>> THEN <<m>>
  ELSE IF Head(sorted).offset <= m.offset
    THEN <<Head(sorted)>> \o InsertAscending(m, Tail(sorted))
  ELSE <<m>> \o sorted

RECURSIVE SortAscendingFrom(_, _, _)
SortAscendingFrom(ms, k, sorted) ==
  IF k > Len(ms) THEN sorted
  ELSE SortAscendingFrom(ms, k + 1, InsertAscending(ms[k], sorted))

SortMatches_Ascending(ms) == SortAscendingFrom(ms, 1, <<>>)

\* the sort left out: the matches in the order of the response
SortMatches_Unsorted(ms) == ms

SortMatches(ms) == SortFrom(ms, 1, <<>>)

\* the body of the for loop, for one match
ApplyMatch(s, match) ==
  IF Len(match.replacements) > 0
    THEN Slice(s, 0, match.offset)
           \o match.replacements[1].value
           \o Slice(s, match.offset + match.length, Len(s))
    ELSE s

\* for (const match of matches), from element k on
RECURSIVE SpliceLoop(_, _, _)
SpliceLoop(s, ms, k) ==
  IF k > Len(ms) THEN s
  ELSE SpliceLoop(ApplyMatch(s, ms[k]), ms, k + 1)

\* the catch block: the error thrown instead, by its message
ClassifyError(error) ==
  IF error.code = "ECONNABORTED" THEN TimeoutMessage
  ELSE IF error.response THEN UnavailableMessage
  ELSE UnreachableMessage

\* [ok |-> TRUE, value |-> corrected text] or [ok |-> FALSE, message |-> m]
correctWithLanguageTool(t, outcome) ==
  LET res == AxiosPost(outcome)
  IN  IF ~res.resolved
        THEN [ok |-> FALSE, message |-> ClassifyError(res.error)]
      ELSE IF "matches" \notin DOMAIN res.data
        THEN [ok |-> FALSE, message |-> ClassifyError(TypeError)]
      ELSE [ok |-> TRUE,
            value |-> SpliceLoop(t, SortMatches(res.data.matches), 1)]

OkOutcome(ms) == [kind |-> "ok", data |-> [matches |-> ms]]

\* a 2xx response whose body has no list of matches
MalformedOutcome == [kind |-> "ok", data |-> [message |-> "no matches"]]

(***************************************************************************)
(* The client on its own, for a response that lists matches: texts of at   *)
(* most MaxSpliceLen characters and every list, in every order, of at most *)
(* MaxMatches pairwise non-overlapping matches inside the text.            *)
(***************************************************************************)
MaxSpliceLen == 3

MaxMatches == 3

SpliceAlphabet == <<"a", "b", "c", "d", "e", "f", "g", "h">>

SpliceTexts == {[i \in 1..n |-> SpliceAlphabet[i]] : n \in 0..MaxSpliceLen}

\* no candidate; two candidates, the first of two characters; one empty
\* candidate (a deletion)
ReplacementLists ==
  { <<>>,
    << [value |-> <<"X", "Y">>], [value |-> <<"Q">>] >>,
    << [value |-> <<>>] >> }

MatchesIn(t) ==
  {[offset |-> o, length |-> l, replacements |-> r] :
     o \in 0..(Len(t) - 1), l \in 1..Len(t), r \in ReplacementLists}

InText(t, m) == m.offset + m.length <= Len(t)

Overlap(a, b) ==
  a.offset < b.offset + b.length /\ b.offset < a.offset + a.length

NonOverlapping(ms) ==
  \A i \in 1..Len(ms) : \A j \in 1..Len(ms) : i # j => ~Overlap(ms[i], ms[j])

MatchLists(t) ==
  {ms \in UNION {[1..k -> {m \in MatchesIn(t) : InText(t, m)}] :
                   k \in 0..MaxMatches} : NonOverlapping(ms)}

SpInit ==
  /\ text \in SpliceTexts
  /\ matches \in MatchLists(text)
  /\ correctedText = Pending
  /\ OrchIdle
  /\ FbIdle

SpCorrect ==
  /\ correctedText = Pending
  /\ correctedText' = correctWithLanguageTool(text, OkOutcome(matches)).value
  /\ UNCHANGED <<text, matches, orchVars, fbVars>>

SpNext == SpCorrect

SpliceSpec == SpInit /\ [][SpNext]_vars

Applies(m) == Len(m.replacements) > 0

\* the text read left to right: at the start of a match's span comes the
\* match's first candidate (or the span itself when it has none), elsewhere
\* the character of the text
RECURSIVE ExpectedFrom(_, _, _)
ExpectedFrom(t, ms, pos) ==
  IF pos > Len(t) THEN <<>>
  ELSE IF \E k \in 1..Len(ms) : ms[k].offset = pos - 1
    THEN LET m == ms[CHOOSE k \in 1..Len(ms) : ms[k].offset = pos - 1]
         IN  (IF Applies(m) THEN m.replacements[1].value
                            ELSE SubSeq(t, pos, pos + m.length - 1))
               \o ExpectedFrom(t, ms, pos + m.length)
  ELSE <<t[pos]>> \o ExpectedFrom(t, ms, pos + 1)

RECURSIVE LengthChange(_, _)
LengthChange(ms, k) ==
  IF k > Len(ms) THEN 0
  ELSE (IF Applies(ms[k])
          THEN Len(ms[k].replacements[1].value) - ms[k].length ELSE 0)
       + LengthChange(ms, k + 1)

\* C4: for non-overlapping matches inside the text the result is the text
\* with the span of each match that has a candidate replaced by its first
\* candidate, every other character kept in place and in order; its length
\* is the text's plus the sum of (replacement length - match length).
C4_SpansReplaced ==
  correctedText # Pending =>
    /\ correctedText = ExpectedFrom(text, matches, 1)
    /\ Len(correctedText) = Len(text) + LengthChange(matches, 1)

\* two matches listed in ascending offset order, the lower one changing the
\* length of the text, a third without candidates: all three handled
C4_Witness ==
  /\ correctedText # Pending
  /\ Len(matches) = 3
  /\ matches[1].offset < matches[2].offset
  /\ Applies(matches[1]) /\ Len(matches[1].replacements[1].value) # matches[1].length
  /\ Applies(matches[2])
  /\ ~Applies(matches[3])
  /\ correctedText # text

Permute(ms, p) == [i \in 1..Len(ms) |-> ms[p[i]]]

StrictlyDescending(ms) ==
  \A i \in 1..(Len(ms) - 1) : ms[i].offset > ms[i+1].offset

\* C5: the result is the same for every order in which the response lists
\* the (non-overlapping) matches, which are applied in strictly descending
\* offset order.
C5_OrderIndependent ==
  correctedText # Pending =>
    /\ \A p \in Permutations(1..Len(matches)) :
         correctWithLanguageTool(text, OkOutcome(Permute(matches, p))).value
           = correctedText
    /\ \A p \in Permutations(1..Len(matches)) :
         StrictlyDescending(SortMatches(Permute(matches, p)))

\* the response lists two length-changing matches lowest offset first
C5_Witness ==
  /\ correctedText # Pending
  /\ Len(matches) = 2
  /\ matches[1].offset < matches[2].offset
  /\ \A k \in 1..2 : /\ Applies(matches[k])
                     /\ Len(matches[k].replacements[1].value) # matches[k].length

(***************************************************************************)
(* app.post('/correct'): one request, from its arrival to the response.    *)
(*   pc = "request"   the handler has not run yet                          *)
(*   pc = "awaiting"  suspended at await correctWithLanguageTool(...)      *)
(*   pc = "settled"   axios.post has settled, the handler not yet resumed  *)
(*   pc = "done"      res.render has been called                           *)
(***************************************************************************)
MaxTextLength == 5000

EmptyTextMessage == <<"Please enter some text to correct.">>

TooLongMessage == <<"Text is too long. Please limit to 5000 characters.">>

\* !originalText || originalText.trim() === ''
IsEmptyText(t) == t = Undefined \/ t = <<>> \/ trim(t) = <<>>

\* the limit taken as exclusive
IsTooLong_AtLimit(t) == Len(t) >= MaxTextLength

\* originalText.length > 5000
IsTooLong(t) == Len(t) > MaxTextLength

RenderEmptyText ==
  [corrected |-> Null, originalText |-> <<>>, hasResult |-> FALSE,
   error |-> EmptyTextMessage]

RenderTooLong(t) ==
  [corrected |-> Null, originalText |-> t, hasResult |-> FALSE,
   error |-> TooLongMessage]

RenderCorrected(t, value) ==
  [corrected |-> value, originalText |-> t, hasResult |-> TRUE,
   error |-> Null]

\* the catch block rendering the submitted text as it is
RenderFallback_Uncorrected(t, message) ==
  [corrected |-> t, originalText |-> t, hasResult |-> TRUE,
   error |-> message]

RenderFallback(t, message) ==
  [corrected |-> enhancedFallbackCorrections(t), originalText |-> t,
   hasResult |-> TRUE, error |-> message]

\* the submitted texts: none, empty, blank, short ones, and texts around
\* the length limit
Repeat(c, n) == [i \in 1..n |-> c]

ShortTexts ==
  { Undefined, <<>>, <<" ">>, <<"\t", " ">>,
    <<"i">>, <<" ", "x">>, <<"x", ".", "x">>, <<"m", "e", " ", "a", "n", "d">>,
    <<"T", "H", "E", "R", "E">> }

LimitTexts ==
  { Repeat("a", MaxTextLength - 1), Repeat("a", MaxTextLength),
    Repeat("a", MaxTextLength + 1), Repeat(" ", MaxTextLength + 1) }

OrchTexts == ShortTexts \cup LimitTexts

\* the matches a response may list for t: at most MaxOrchMatches, possibly
\* overlapping, within the first MaxOrchSpan characters of t
MaxOrchMatches == 1

MaxOrchSpan == 2

OrchMatches(t) ==
  LET n == IF Len(t) < MaxOrchSpan THEN Len(t) ELSE MaxOrchSpan
  IN  {[offset |-> o, length |-> l, replacements |-> r] :
         o \in 0..(n - 1), l \in 1..n,
         r \in {<<>>, << [value |-> <<"X", "Y">>] >>}}

Outcomes(t) ==
  {[kind |-> "timeout"], [kind |-> "badStatus"], [kind |-> "noResponse"],
   MalformedOutcome}
  \cup {OkOutcome(ms) :
          ms \in UNION {[1..k -> {m \in OrchMatches(t) : InText(t, m)}] :
                          k \in 0..MaxOrchMatches}}

Init ==
  /\ pc = "request"
  /\ originalText \in OrchTexts
  /\ transport = [kind |-> "none"]
  /\ thrown = Null
  /\ rendered = Null
  /\ remoteAttempts = 0
  /\ fallbackCalls = 0
  /\ renders = 0
  /\ SpliceIdle
  /\ FbIdle

\* the handler up to its await: validation, then the remote call is started
PostCorrect ==
  /\ pc = "request"
  /\ IF IsEmptyText(originalText)
       THEN /\ rendered' = RenderEmptyText
            /\ renders' = renders + 1
            /\ pc' = "done"
            /\ UNCHANGED remoteAttempts
     ELSE IF IsTooLong(originalText)
       THEN /\ rendered' = RenderTooLong(originalText)
            /\ renders' = renders + 1
            /\ pc' = "done"
            /\ UNCHANGED remoteAttempts
     ELSE /\ remoteAttempts' = remoteAttempts + 1
          /\ pc' = "awaiting"
          /\ UNCHANGED <<rendered, renders>>
  /\ UNCHANGED <<originalText, transport, thrown, fallbackCalls,
                 spliceVars, fbVars>>

\* axios.post settles (at the latest when its 10 s timeout expires) and
\* correctWithLanguageTool runs to its return or throw
RemoteSettles ==
  /\ pc = "awaiting"
  /\ \E outcome \in Outcomes(originalText) :
       /\ transport' = outcome
       /\ thrown' = LET r == correctWithLanguageTool(originalText, outcome)
                    IN  IF r.ok THEN Null ELSE r.message
  /\ pc' = "settled"
  /\ UNCHANGED <<originalText, rendered, remoteAttempts, fallbackCalls,
                 renders, spliceVars, fbVars>>

\* a handler that starts the remote attempt again when it has failed
HandlerResumes_Retry ==
  /\ pc = "settled"
  /\ IF thrown = Null
       THEN /\ rendered' = RenderCorrected(originalText,
                 correctWithLanguageTool(originalText, transport).value)
            /\ renders' = renders + 1
            /\ pc' = "done"
            /\ UNCHANGED <<thrown, remoteAttempts, fallbackCalls>>
     ELSE IF remoteAttempts < 2
       THEN /\ remoteAttempts' = remoteAttempts + 1
            /\ thrown' = Null
            /\ pc' = "awaiting"
            /\ UNCHANGED <<rendered, renders, fallbackCalls>>
     ELSE /\ fallbackCalls' = fallbackCalls + 1
          /\ rendered' = RenderFallback(originalText, thrown)
          /\ renders' = renders + 1
          /\ pc' = "done"
          /\ UNCHANGED <<thrown, remoteAttempts>>
  /\ UNCHANGED <<originalText, transport, spliceVars, fbVars>>

\* the handler resumes: the rest of the try block, or the catch block
HandlerResumes ==
  /\ pc = "settled"
  /\ IF thrown = Null
       THEN /\ rendered' = RenderCorrected(originalText,
                 correctWithLanguageTool(originalText, transport).value)
            /\ UNCHANGED fallbackCalls
       ELSE /\ fallbackCalls' = fallbackCalls + 1
            /\ rendered' = RenderFallback(originalText, thrown)
  /\ renders' = renders + 1
  /\ pc' = "done"
  /\ UNCHANGED <<originalText, transport, thrown, remoteAttempts,
                 spliceVars, fbVars>>

Next == PostCorrect \/ RemoteSettles \/ HandlerResumes

Spec == Init /\ [][Next]_vars

\* the same request with fairness: the handler runs once the request has
\* arrived, the timeout of axios.post bounds the remote attempt, and the
\* suspended handler is resumed.  The texts are the short ones: how a request
\* proceeds after validation does not depend on the length of its text.
LiveInit == Init /\ originalText \in ShortTexts

LiveSpec ==
  /\ LiveInit
  /\ [][Next]_vars
  /\ WF_vars(PostCorrect)
  /\ WF_vars(RemoteSettles)
  /\ WF_vars(HandlerResumes)

\* the remote attempt succeeded: a response arrived and lists matches
RemoteSucceeded ==
  transport.kind = "ok" /\ "matches" \in DOMAIN transport.data

ValidationMessages == {EmptyTextMessage, TooLongMessage}

\* C1: for a text that passed validation, when the remote attempt fails in
\* any way the result carries enhancedFallbackCorrections of the unmodified
\* input, the message of the error that correctWithLanguageTool threw, and
\* hasResult true; when it succeeds the result carries the spliced text and
\* a null error, and the fallback corrector is not invoked.
C1_FallbackOnRemoteFailure ==
  (pc = "done" /\ remoteAttempts = 1) =>
    IF RemoteSucceeded
      THEN /\ rendered.corrected
                = SpliceLoop(originalText,
                             SortMatches(transport.data.matches), 1)
           /\ rendered.error = Null
           /\ rendered.hasResult
           /\ fallbackCalls = 0
      ELSE /\ rendered.corrected = enhancedFallbackCorrections(originalText)
           /\ rendered.error
                = correctWithLanguageTool(originalText, transport).message
           /\ rendered.error = thrown
           /\ rendered.hasResult
           /\ rendered.originalText = originalText
           /\ fallbackCalls = 1

\* the response could not be processed, and the text the corrector changes
\* was corrected from the input as submitted
C1_Witness ==
  /\ pc = "done"
  /\ transport = MalformedOutcome
  /\ originalText = <<"m", "e", " ", "a", "n", "d">>
  /\ rendered.corrected = <<"A", "n", "d", " ", "I">>
  /\ rendered.error = UnreachableMessage

\* the text is missing, blank, or longer than the limit
InvalidText(t) ==
  \/ t = Undefined
  \/ \A i \in 1..Len(t) : t[i] \in Whitespace
  \/ Len(t) > 5000

ValidationErrorRendered ==
  pc = "done" /\ rendered.error \in ValidationMessages

\* C2: a request is rejected with a validation error iff its text is
\* missing, empty after trimming, or longer than 5000 characters (5000
\* passes, 5001 is rejected); a rejected request makes no remote attempt,
\* does not invoke the fallback corrector and carries no corrected text.
C2_ValidationBoundary ==
  pc # "request" =>
    /\ ValidationErrorRendered <=> InvalidText(originalText)
    /\ ValidationErrorRendered =>
         /\ remoteAttempts = 0
         /\ transport.kind = "none"
         /\ fallbackCalls = 0
         /\ rendered.corrected = Null
         /\ ~rendered.hasResult
    /\ (originalText # Undefined /\ Len(originalText) = 5000
          /\ ~InvalidText(originalText))
         => (remoteAttempts = 1 /\ ~ValidationErrorRendered)
    /\ (originalText # Undefined /\ Len(originalText) = 5001)
         => ValidationErrorRendered

\* a non-blank text of 5001 characters has been rejected
C2_Witness ==
  /\ pc = "done"
  /\ Len(originalText) = 5001
  /\ originalText[1] = "a"
  /\ rendered.error = TooLongMessage
  /\ remoteAttempts = 0

\* what holds of a request at every moment
SingleAttempt ==
  /\ remoteAttempts <= 1
  /\ fallbackCalls <= 1
  /\ fallbackCalls = 1 => (remoteAttempts = 1 /\ thrown # Null)
  /\ (pc = "done" /\ remoteAttempts = 1) =>
       /\ renders = 1
       /\ rendered.corrected # Null
       /\ rendered.hasResult
       /\ thrown # Null => rendered.error = thrown

\* C3: a request that passed validation starts exactly one remote attempt,
\* invokes the fallback corrector at most once and only after that attempt
\* failed, lets no remote failure escape, and, the attempt being bounded by
\* its timeout, ends Done with exactly one result whose corrected text is
\* not null.
C3_OneAttemptThenDone ==
  /\ [](pc # "request" /\ ~InvalidText(originalText) => remoteAttempts = 1)
  /\ []SingleAttempt
  /\ (pc = "awaiting") ~> (pc = "done" /\ renders = 1)

\* a failed attempt ended in one fallback result
C3_Witness ==
  /\ pc = "done"
  /\ remoteAttempts = 1
  /\ thrown = TimeoutMessage
  /\ fallbackCalls = 1
  /\ renders = 1

\* a response was received for the remote attempt
ResponseReceived == transport.kind \in {"ok", "badStatus"}

\* C6: a failed attempt is classified as exactly one of timeout, service
\* unavailable (a response was received but is a failure: bad status or
\* malformed body) and unreachable (no response at all), each with its own
\* message; an attempt with a response is never classified as unreachable.
C6_FailureClassification ==
  thrown # Null =>
    /\ thrown \in {TimeoutMessage, UnavailableMessage, UnreachableMessage}
    /\ TimeoutMessage # UnavailableMessage
    /\ UnavailableMessage # UnreachableMessage
    /\ TimeoutMessage # UnreachableMessage
    /\ thrown = TimeoutMessage <=> transport.kind = "timeout"
    /\ thrown = UnavailableMessage <=> ResponseReceived
    /\ thrown = UnreachableMessage <=> transport.kind = "noResponse"

====
